---- MODULE Spec2Model ----
(***************************************************************************)
(* Model of pslab/mock_handler.py: class MockHandler, an in-memory         *)
(* stand-in for the PSLab serial handler.  One action per public method.   *)
(* Bytes are integers 0..255, byte strings are sequences of bytes, the     *)
(* response_map (a Python dict, insertion ordered) is a sequence of        *)
(* [command, response] records with pairwise distinct commands.            *)
(***************************************************************************)
EXTENDS Integers, Sequences, FiniteSets, TLC

VARIABLES
    connected,      \* self.connected
    port,           \* self.port
    response_map,   \* self.response_map, in insertion order
    read_buffer,    \* self.read_buffer
    last,           \* the call just made: <<method name, argument>>
    ret,            \* its outcome: <<"none">>, <<"int", n>>, <<"bytes", s>>,
                    \*   <<"bool", b>> or <<"raise", exception name>>
    appended,       \* history: bytes extended onto read_buffer since the last clear()
    returned,       \* history: bytes returned by read() since the last clear()
    cyc,            \* observer of a close() immediately followed by open()
    inj,            \* observer of close(); inject_data()...; open(); read()
    rt              \* observer of send_int(v); inject_data(packed v); read_int()

vars == <<connected, port, response_map, read_buffer, last, ret,
          appended, returned, cyc, inj, rt>>

----------------------------------------------------------------------------
(* Bounds of the exploration *)

\* most bytes extended onto the read buffer between two clears
MaxHist == 3
\* most entries in the response map
MaxMap == 2
\* largest size passed to read()
MaxRead == 2

(* Inputs *)

NoneVal == "<None>"
PortArgs == {NoneVal, "", "COM1"}

Commands == {<< >>, <<52>>, <<52, 18>>}
Responses == {<< >>, <<18>>}
WriteData == {<< >>, <<18>>, <<52>>, <<52, 18>>}
InjectData == {<<18>>, <<52, 18>>, <<18, 52>>}
ReadSizes == (0 - 1)..MaxRead
IntVals == {4660, 13330, 65536}
ByteVals == {<<"int", 52>>, <<"int", 256>>,
             <<"bytes", <<52>>>>, <<"bytes", <<52, 18>>>>,
             <<"str", "4">>}

----------------------------------------------------------------------------
(* Python helpers *)

\* truth value of an Optional[str]
Truthy(p) == p # NoneVal /\ p # ""

\* the arguments of startswith exchanged
startswith_swapped(data, command) ==
    /\ Len(data) <= Len(command)
    /\ SubSeq(command, 1, Len(data)) = data

\* bytes.startswith
startswith(data, command) ==
    /\ Len(command) <= Len(data)
    /\ SubSeq(data, 1, Len(command)) = command

\* index at which a slice bound n lands in a sequence of length len
SliceIndex(len, n) ==
    IF n >= 0 THEN (IF n < len THEN n ELSE len)
              ELSE (IF len + n > 0 THEN len + n ELSE 0)

\* s[:n]
SliceTo(s, n) == SubSeq(s, 1, SliceIndex(Len(s), n))

\* s[n:]
SliceFrom(s, n) == SubSeq(s, SliceIndex(Len(s), n) + 1, Len(s))

\* struct.pack('<H', val); defined for 0 <= val <= 65535
PackRange(val) == val >= 0 /\ val <= 65535
Pack(val) == <<val % 256, (val \div 256) % 256>>

\* big-endian decoding, '>H'
Unpack_be(data) == 256 * data[1] + data[2]

\* struct.unpack('<H', data)[0]; data has two bytes
Unpack(data) == data[1] + 256 * data[2]

\* bytes([val]); defined for 0 <= val <= 255
ByteRange(val) == val >= 0 /\ val <= 255

----------------------------------------------------------------------------
(* Dictionary helpers *)

\* position of command among the keys, 0 when absent
KeyIndex(map, command) ==
    IF \E i \in 1..Len(map) : map[i].command = command
    THEN CHOOSE i \in 1..Len(map) : map[i].command = command
    ELSE 0

\* the loop of write(): first entry, in iteration order, whose command is
\* a prefix of data; 0 when the loop ends without a match
MatchIndex(map, data) ==
    IF \E i \in 1..Len(map) : startswith(data, map[i].command)
    THEN CHOOSE i \in 1..Len(map) :
            /\ startswith(data, map[i].command)
            /\ \A j \in 1..(i - 1) : ~startswith(data, map[j].command)
    ELSE 0

\* the loop of write() without its break: every matching response, in order
RECURSIVE AllResponses(_, _)
AllResponses(map, data) ==
    IF map = << >> THEN << >>
    ELSE (IF startswith(data, Head(map).command) THEN Head(map).response ELSE << >>)
         \o AllResponses(Tail(map), data)

\* the loop of write() keeping the last match instead of the first
LastResponse(map, data) ==
    IF \E i \in 1..Len(map) : startswith(data, map[i].command)
    THEN map[CHOOSE i \in 1..Len(map) :
                /\ startswith(data, map[i].command)
                /\ \A j \in (i + 1)..Len(map) : ~startswith(data, map[j].command)].response
    ELSE << >>

\* bytes the loop of write() extends the read buffer with
MatchedResponse(map, data) ==
    IF MatchIndex(map, data) = 0 THEN << >>
    ELSE map[MatchIndex(map, data)].response

\* a list of pairs appended to, instead of a dict assigned into
SetItem_append(map, command, response) ==
    Append(map, [command |-> command, response |-> response])

\* response_map[command] = response
SetItem(map, command, response) ==
    IF KeyIndex(map, command) = 0
    THEN Append(map, [command |-> command, response |-> response])
    ELSE [map EXCEPT ![KeyIndex(map, command)].response = response]

----------------------------------------------------------------------------
(* Observers *)

Idle == <<0>>

\* any call other than the ones the observers follow
OtherCall == cyc' = Idle /\ inj' = Idle /\ rt' = Idle

----------------------------------------------------------------------------
Init ==
    /\ connected = FALSE
    /\ \E p \in PortArgs : port = (IF Truthy(p) THEN p ELSE "MOCK_PORT")
    /\ response_map = << >>
    /\ read_buffer = << >>
    /\ last = <<"__init__">>
    /\ ret = <<"none">>
    /\ appended = << >>
    /\ returned = << >>
    /\ cyc = Idle
    /\ inj = Idle
    /\ rt = Idle

\* open() ignoring its argument
open_keeps_port(p) ==
    /\ port' = port
    /\ connected' = TRUE
    /\ last' = <<"open", p>>
    /\ ret' = <<"none">>
    /\ cyc' = (IF cyc[1] = 1 THEN <<2, cyc[2], cyc[3]>> ELSE Idle)
    /\ inj' = (IF inj[1] = 1 THEN <<2, inj[2]>> ELSE Idle)
    /\ rt' = Idle
    /\ UNCHANGED <<response_map, read_buffer, appended, returned>>

\* open() resetting the read buffer like close() does
open_clears_buffer(p) ==
    /\ port' = (IF Truthy(p) THEN p ELSE port)
    /\ connected' = TRUE
    /\ read_buffer' = << >>
    /\ appended' = << >>
    /\ returned' = << >>
    /\ last' = <<"open", p>>
    /\ ret' = <<"none">>
    /\ cyc' = (IF cyc[1] = 1 THEN <<2, cyc[2], cyc[3]>> ELSE Idle)
    /\ inj' = (IF inj[1] = 1 THEN <<2, inj[2]>> ELSE Idle)
    /\ rt' = Idle
    /\ UNCHANGED response_map

open(p) ==
    /\ port' = (IF Truthy(p) THEN p ELSE port)
    /\ connected' = TRUE
    /\ last' = <<"open", p>>
    /\ ret' = <<"none">>
    /\ cyc' = (IF cyc[1] = 1 THEN <<2, cyc[2], cyc[3]>> ELSE Idle)
    /\ inj' = (IF inj[1] = 1 THEN <<2, inj[2]>> ELSE Idle)
    /\ rt' = Idle
    /\ UNCHANGED <<response_map, read_buffer, appended, returned>>

\* close() without read_buffer.clear()
close_keeps_buffer ==
    /\ connected' = FALSE
    /\ last' = <<"close">>
    /\ ret' = <<"none">>
    /\ cyc' = <<1, response_map, read_buffer>>
    /\ inj' = <<1, << >>>>
    /\ rt' = Idle
    /\ UNCHANGED <<port, response_map, read_buffer, appended, returned>>

close ==
    /\ connected' = FALSE
    /\ read_buffer' = << >>
    /\ last' = <<"close">>
    /\ ret' = <<"none">>
    /\ appended' = << >>
    /\ returned' = << >>
    /\ cyc' = <<1, response_map, read_buffer>>
    /\ inj' = <<1, << >>>>
    /\ rt' = Idle
    /\ UNCHANGED <<port, response_map>>

\* self.write(data) without the check of self.connected
write_call_ungated(data, result) ==
    /\ Len(appended) + Len(MatchedResponse(response_map, data)) <= MaxHist
    /\ read_buffer' = read_buffer \o MatchedResponse(response_map, data)
    /\ appended' = appended \o MatchedResponse(response_map, data)
    /\ ret' = result

\* self.write(data) as called by write, send_byte and send_int; result is
\* what the caller returns when the write goes through
write_call(data, result) ==
    IF ~connected
    THEN /\ ret' = <<"raise", "RuntimeError">>
         /\ UNCHANGED <<read_buffer, appended>>
    ELSE /\ Len(appended) + Len(MatchedResponse(response_map, data)) <= MaxHist
         /\ read_buffer' = read_buffer \o MatchedResponse(response_map, data)
         /\ appended' = appended \o MatchedResponse(response_map, data)
         /\ ret' = result

write(data) ==
    /\ write_call(data, <<"int", Len(data)>>)
    /\ last' = <<"write", data>>
    /\ OtherCall
    /\ UNCHANGED <<connected, port, response_map, returned>>

\* bytes handed back by read(size) on a buffer buf
ReadData(buf, size) ==
    IF Len(buf) < size THEN buf ELSE SliceTo(buf, size)

\* a short read that forgets read_buffer.clear()
ReadRest_unclear(buf, size) ==
    IF Len(buf) < size THEN buf ELSE SliceFrom(buf, size)

\* what read(size) leaves in the buffer
ReadRest(buf, size) ==
    IF Len(buf) < size THEN << >> ELSE SliceFrom(buf, size)

AsBytes(data) == <<"bytes", data>>

\* read_byte without its test of an empty read: data[0] on b"" raises
ByteResult_unchecked(data) ==
    IF Len(data) = 0 THEN <<"raise", "IndexError">> ELSE <<"int", data[1]>>

ByteResult(data) == <<"int", IF Len(data) = 0 THEN 0 ELSE data[1]>>

\* read_int decoding a lone byte instead of returning 0
IntResult_partial(data) ==
    <<"int", IF Len(data) = 0 THEN 0
             ELSE IF Len(data) = 1 THEN data[1] ELSE Unpack(data)>>

IntResult(data) == <<"int", IF Len(data) < 2 THEN 0 ELSE Unpack(data)>>

\* what the calling method makes of the bytes self.read() gave it
CallerResult(caller, data) ==
    CASE caller = "read" -> AsBytes(data)
      [] caller = "read_byte" -> ByteResult(data)
      [] caller = "read_int" -> IntResult(data)

\* self.read(size) without the check of self.connected
read_call_ungated(size, caller) ==
    /\ read_buffer' = ReadRest(read_buffer, size)
    /\ returned' = returned \o ReadData(read_buffer, size)
    /\ ret' = CallerResult(caller, ReadData(read_buffer, size))

\* self.read(size) as called by read, read_byte and read_int
read_call(size, caller) ==
    IF ~connected
    THEN /\ ret' = <<"raise", "RuntimeError">>
         /\ UNCHANGED <<read_buffer, returned>>
    ELSE /\ read_buffer' = ReadRest(read_buffer, size)
         /\ returned' = returned \o ReadData(read_buffer, size)
         /\ ret' = CallerResult(caller, ReadData(read_buffer, size))

read(size) ==
    /\ read_call(size, "read")
    /\ last' = <<"read", size>>
    /\ cyc' = Idle
    /\ inj' = (IF inj[1] = 2 THEN <<3, inj[2]>> ELSE Idle)
    /\ rt' = Idle
    /\ UNCHANGED <<connected, port, response_map, appended>>

\* the first definition of get_ack, which the class body overrides
get_ack_int ==
    /\ ret' = <<"int", 1>>
    /\ last' = <<"get_ack">>
    /\ OtherCall
    /\ UNCHANGED <<connected, port, response_map, read_buffer, appended, returned>>

get_ack ==
    /\ ret' = <<"bool", TRUE>>
    /\ last' = <<"get_ack">>
    /\ OtherCall
    /\ UNCHANGED <<connected, port, response_map, read_buffer, appended, returned>>

\* clear_buffer gated on the connection like write and read
clear_buffer_gated ==
    /\ IF connected
       THEN read_buffer' = << >> /\ appended' = << >> /\ returned' = << >>
            /\ ret' = <<"none">>
       ELSE ret' = <<"raise", "RuntimeError">>
            /\ UNCHANGED <<read_buffer, appended, returned>>
    /\ last' = <<"clear_buffer">>
    /\ OtherCall
    /\ UNCHANGED <<connected, port, response_map>>

clear_buffer ==
    /\ read_buffer' = << >>
    /\ appended' = << >>
    /\ returned' = << >>
    /\ ret' = <<"none">>
    /\ last' = <<"clear_buffer">>
    /\ OtherCall
    /\ UNCHANGED <<connected, port, response_map>>

send_byte(val) ==
    /\ IF val[1] = "int"
       THEN IF ByteRange(val[2])
            THEN write_call(<<val[2]>>, <<"none">>)
            ELSE /\ ret' = <<"raise", "ValueError">>
                 /\ UNCHANGED <<read_buffer, appended>>
       ELSE IF val[1] = "bytes"
            THEN write_call(val[2], <<"none">>)
            ELSE /\ ret' = <<"raise", "TypeError">>
                 /\ UNCHANGED <<read_buffer, appended>>
    /\ last' = <<"send_byte", val>>
    /\ OtherCall
    /\ UNCHANGED <<connected, port, response_map, returned>>

send_int(val) ==
    /\ IF PackRange(val)
       THEN write_call(Pack(val), <<"none">>)
       ELSE /\ ret' = <<"raise", "struct.error">>
            /\ UNCHANGED <<read_buffer, appended>>
    /\ last' = <<"send_int", val>>
    /\ cyc' = Idle
    /\ inj' = Idle
    /\ rt' = (IF connected /\ PackRange(val) /\ read_buffer = << >>
              THEN <<1, val, read_buffer'>> ELSE Idle)
    /\ UNCHANGED <<connected, port, response_map, returned>>

read_byte ==
    /\ read_call(1, "read_byte")
    /\ last' = <<"read_byte">>
    /\ OtherCall
    /\ UNCHANGED <<connected, port, response_map, appended>>

read_int ==
    /\ read_call(2, "read_int")
    /\ last' = <<"read_int">>
    /\ cyc' = Idle
    /\ inj' = Idle
    /\ rt' = (IF rt[1] = 2 THEN <<3, rt[2], rt[3]>> ELSE Idle)
    /\ UNCHANGED <<connected, port, response_map, appended>>

register_response(command, response) ==
    /\ KeyIndex(response_map, command) = 0 => Len(response_map) < MaxMap
    /\ response_map' = SetItem(response_map, command, response)
    /\ ret' = <<"none">>
    /\ last' = <<"register_response", command, response>>
    /\ OtherCall
    /\ UNCHANGED <<connected, port, read_buffer, appended, returned>>

\* inject_data() putting the bytes in front of the buffer
inject_data_front(data) ==
    /\ Len(appended) + Len(data) <= MaxHist
    /\ read_buffer' = data \o read_buffer
    /\ appended' = appended \o data
    /\ ret' = <<"none">>
    /\ last' = <<"inject_data", data>>
    /\ cyc' = Idle
    /\ inj' = (IF inj[1] = 1 THEN <<1, inj[2] \o data>> ELSE Idle)
    /\ rt' = (IF rt[1] = 1 /\ data = <<rt[2] % 256, rt[2] \div 256>>
              THEN <<2, rt[2], rt[3]>> ELSE Idle)
    /\ UNCHANGED <<connected, port, response_map, returned>>

inject_data(data) ==
    /\ Len(appended) + Len(data) <= MaxHist
    /\ read_buffer' = read_buffer \o data
    /\ appended' = appended \o data
    /\ ret' = <<"none">>
    /\ last' = <<"inject_data", data>>
    /\ cyc' = Idle
    /\ inj' = (IF inj[1] = 1 THEN <<1, inj[2] \o data>> ELSE Idle)
    /\ rt' = (IF rt[1] = 1 /\ data = <<rt[2] % 256, rt[2] \div 256>>
              THEN <<2, rt[2], rt[3]>> ELSE Idle)
    /\ UNCHANGED <<connected, port, response_map, returned>>

Next ==
    \/ \E p \in PortArgs : open(p)
    \/ close
    \/ \E data \in WriteData : write(data)
    \/ \E size \in ReadSizes : read(size)
    \/ get_ack
    \/ clear_buffer
    \/ \E val \in ByteVals : send_byte(val)
    \/ \E val \in IntVals : send_int(val)
    \/ read_byte
    \/ read_int
    \/ \E command \in Commands, response \in Responses :
          register_response(command, response)
    \/ \E data \in InjectData : inject_data(data)

Spec == Init /\ [][Next]_vars

----------------------------------------------------------------------------
(* Properties *)

Raises(r, e) == r[1] = "raise" /\ r[2] = e
Returns(r, kind, v) == r[1] = kind /\ r[2] = v
ReturnsNone(r) == r[1] = "none"

\* k is a prefix of d
IsPrefix(k, d) == Len(k) <= Len(d) /\ \A i \in 1..Len(k) : d[i] = k[i]

\* indices of the registered commands that are prefixes of data
Matching(map, data) == {i \in 1..Len(map) : IsPrefix(map[i].command, data)}
FirstOf(S) == CHOOSE i \in S : \A j \in S : i <= j

\* C1: write(d) and read(n) called while disconnected raise the
\* not-connected error (RuntimeError) and leave the connection flag, the read
\* buffer and the response table as they were.
C1_DisconnectedTransferFails ==
    [][(~connected /\ last'[1] \in {"write", "read"}) =>
          /\ Raises(ret', "RuntimeError")
          /\ connected' = connected
          /\ read_buffer' = read_buffer
          /\ response_map' = response_map]_vars

C1_Witness ==
    /\ ~connected
    /\ last[1] = "write"
    /\ Raises(ret, "RuntimeError")
    /\ read_buffer # << >>
    /\ Matching(response_map, last[2]) # {}

\* C2 as stated: for every registered pair (k, r), a connected write of any d
\* that starts with k appends exactly r to the read buffer and returns len(d).
C2_EveryMatchingPairAppended ==
    [][\A i \in 1..Len(response_map) :
          (connected /\ last'[1] = "write"
              /\ IsPrefix(response_map[i].command, last'[2])) =>
             /\ read_buffer' = read_buffer \o response_map[i].response
             /\ Returns(ret', "int", Len(last'[2]))]_vars

\* C2 amended: for every registered pair (k, r) such that k is the first key,
\* in insertion order, that is a prefix of d, a connected write(d) appends
\* exactly r to the end of the read buffer, once, and returns len(d).
C2_FirstMatchingPairAppended ==
    [][\A i \in 1..Len(response_map) :
          (connected /\ last'[1] = "write"
              /\ IsPrefix(response_map[i].command, last'[2])
              /\ \A j \in 1..(i - 1) : ~IsPrefix(response_map[j].command, last'[2])) =>
             /\ read_buffer' = read_buffer \o response_map[i].response
             /\ Returns(ret', "int", Len(last'[2]))]_vars

C2_Witness ==
    /\ connected
    /\ last[1] = "write"
    /\ Returns(ret, "int", 2)
    /\ Matching(response_map, last[2]) # {}
    /\ response_map[FirstOf(Matching(response_map, last[2]))].response = <<18>>
    /\ read_buffer = <<52, 18, 18>>

\* C3: a connected write(d) applies at most one response: when several
\* registered keys are prefixes of d, only the response of the first of them
\* in insertion order is appended, and the buffer grows by that response alone.
C3_AtMostOneResponse ==
    [][(connected /\ last'[1] = "write"
          /\ Cardinality(Matching(response_map, last'[2])) >= 2) =>
          LET first == response_map[FirstOf(Matching(response_map, last'[2]))]
          IN  /\ read_buffer' = read_buffer \o first.response
              /\ Len(read_buffer') = Len(read_buffer) + Len(first.response)]_vars

C3_Witness ==
    /\ connected
    /\ last[1] = "write"
    /\ ret[1] = "int"
    /\ Cardinality(Matching(response_map, last[2])) >= 2
    /\ response_map[1].response = <<18>>
    /\ response_map[2].response = << >>
    /\ read_buffer = <<52, 18, 18>>

\* C4: a connected write(d) for which no registered key is a prefix of d
\* returns len(d) and leaves the read buffer, the response table and the
\* connection flag unchanged.
C4_UnmatchedWriteIsNoOp ==
    [][(connected /\ last'[1] = "write"
          /\ Matching(response_map, last'[2]) = {}) =>
          /\ Returns(ret', "int", Len(last'[2]))
          /\ read_buffer' = read_buffer
          /\ response_map' = response_map
          /\ connected' = connected]_vars

C4_Witness ==
    /\ connected
    /\ last[1] = "write"
    /\ Returns(ret, "int", Len(last[2]))
    /\ Len(response_map) = 2
    /\ Matching(response_map, last[2]) = {}
    /\ read_buffer # << >>

\* C5: for n >= 0 a connected read(n) returns at most n bytes: with m < n
\* bytes buffered it returns those m bytes in order and empties the buffer,
\* otherwise it returns the first n bytes and leaves the remaining suffix.
C5_ReadReturnsFront ==
    [][(connected /\ last'[1] = "read" /\ last'[2] >= 0) =>
          LET n == last'[2]
              m == Len(read_buffer)
          IN  /\ ret'[1] = "bytes"
              /\ Len(ret'[2]) <= n
              /\ IF m < n
                 THEN ret'[2] = read_buffer /\ read_buffer' = << >>
                 ELSE /\ ret'[2] = SubSeq(read_buffer, 1, n)
                      /\ read_buffer' = SubSeq(read_buffer, n + 1, m)]_vars

C5_Witness ==
    /\ connected
    /\ last = <<"read", 2>>
    /\ ret[1] = "bytes"
    /\ Len(ret[2]) = 1
    /\ read_buffer = << >>

\* C6: the read buffer is a FIFO: since the last close() or clear_buffer(),
\* the bytes returned by read calls followed by the bytes still buffered are
\* exactly the bytes appended by matched writes and inject_data, in call order.
C6_Fifo == appended = returned \o read_buffer

C6_Witness ==
    /\ last[1] = "read"
    /\ returned # << >>
    /\ read_buffer # << >>
    /\ Len(appended) = 3

\* C7: close() followed by open() yields a connected channel with an empty
\* read buffer and the response table that was there before close().
C7_CloseOpen ==
    cyc[1] = 2 =>
        /\ connected
        /\ read_buffer = << >>
        /\ response_map = cyc[2]

C7_Witness ==
    /\ cyc[1] = 2
    /\ last[1] = "open"
    /\ cyc[2] # << >>
    /\ cyc[3] # << >>

\* a value send_byte is documented to take: an int in 0..255 or bytes of length 1
SingleByte(val) ==
    \/ val[1] = "int" /\ ByteRange(val[2])
    \/ val[1] = "bytes" /\ Len(val[2]) = 1

\* C8: send_byte(value) on a connected channel accepts an integer in [0,255]
\* or a single-byte sequence and succeeds; for any other input it raises
\* TypeError and writes nothing (the read buffer is unchanged).
C8_SendByteValidates ==
    [][(connected /\ last'[1] = "send_byte") =>
          IF SingleByte(last'[2])
          THEN ReturnsNone(ret')
          ELSE Raises(ret', "TypeError") /\ read_buffer' = read_buffer]_vars

C10_RoundTripAlways ==
    rt[1] = 3 => Returns(ret, "int", rt[2])

\* C10 amended: the same round trip returns v provided the write made by
\* send_int(v) left the read buffer empty, that is, it matched no registered
\* key or the first key it matched has an empty response.
C10_RoundTripWhenNoResponse ==
    (rt[1] = 3 /\ rt[3] = << >>) => Returns(ret, "int", rt[2])

C10_Witness ==
    /\ rt[1] = 3
    /\ rt[3] = << >>
    /\ response_map # << >>
    /\ last[1] = "read_int"
    /\ Returns(ret, "int", 4660)

\* C11: a connected read_int() with at least two bytes buffered returns
\* b0 + 256*b1 for the first two bytes and removes exactly those two; with
\* fewer than two bytes buffered it returns 0 and does not raise.
C11_ReadIntLittleEndian ==
    [][(connected /\ last'[1] = "read_int") =>
          IF Len(read_buffer) >= 2
          THEN /\ Returns(ret', "int", read_buffer[1] + 256 * read_buffer[2])
               /\ read_buffer' = SubSeq(read_buffer, 3, Len(read_buffer))
          ELSE Returns(ret', "int", 0)]_vars

C11_Witness ==
    /\ connected
    /\ last[1] = "read_int"
    /\ Returns(ret, "int", 4660)
    /\ returned = <<52, 18>>
    /\ read_buffer = <<18>>

\* C12: a connected read_byte() returns 0 without raising when the buffer is
\* empty, and otherwise returns the value of the first buffered byte and
\* removes exactly that byte.
C12_ReadByte ==
    [][(connected /\ last'[1] = "read_byte") =>
          IF read_buffer = << >>
          THEN Returns(ret', "int", 0) /\ read_buffer' = << >>
          ELSE /\ Returns(ret', "int", Head(read_buffer))
               /\ read_buffer' = Tail(read_buffer)]_vars

C12_Witness ==
    /\ connected
    /\ last[1] = "read_byte"
    /\ Returns(ret, "int", 0)
    /\ read_buffer = << >>
    /\ appended = returned

\* C13: get_ack() returns boolean true in every state, connected or not, and
\* leaves the read buffer, the response table and the connection flag as
\* they were.
C13_GetAckTrue ==
    [][last'[1] = "get_ack" =>
          /\ Returns(ret', "bool", TRUE)
          /\ read_buffer' = read_buffer
          /\ response_map' = response_map
          /\ connected' = connected]_vars

C13_Witness ==
    /\ last[1] = "get_ack"
    /\ Returns(ret, "bool", TRUE)
    /\ ~connected
    /\ read_buffer # << >>
    /\ response_map # << >>

\* C14: clear_buffer() succeeds whether connected or not, leaves the read
\* buffer empty, and leaves the connection flag and the response table
\* unchanged.
C14_ClearBuffer ==
    [][last'[1] = "clear_buffer" =>
          /\ ReturnsNone(ret')
          /\ read_buffer' = << >>
          /\ connected' = connected
          /\ response_map' = response_map]_vars

C14_Witness ==
    /\ last[1] = "clear_buffer"
    /\ ReturnsNone(ret)
    /\ ~connected
    /\ read_buffer = << >>
    /\ response_map # << >>

\* C15: only register_response changes the response table: it overwrites
\* the response of an already registered prefix in place or adds one entry
\* for a new prefix, keeping one entry per prefix and every other entry;
\* every other call leaves the table unchanged.
C15_TableOnlyByRegister ==
    [][IF last'[1] = "register_response"
       THEN LET k == last'[2]
                r == last'[3]
                old == {i \in 1..Len(response_map) : response_map[i].command = k}
            IN  /\ \A i, j \in 1..Len(response_map') :
                      response_map'[i].command = response_map'[j].command => i = j
                /\ \E i \in 1..Len(response_map') :
                      response_map'[i] = [command |-> k, response |-> r]
                /\ Len(response_map') = Len(response_map) + (IF old = {} THEN 1 ELSE 0)
                /\ \A i \in 1..Len(response_map) :
                      response_map[i].command # k => response_map'[i] = response_map[i]
       ELSE response_map' = response_map]_vars

C15_Witness ==
    /\ last[1] = "register_response"
    /\ Len(response_map) = 2
    /\ response_map[1] = [command |-> last[2], response |-> last[3]]
    /\ response_map[2].response # last[3]

\* C16: a connected read_int() on a buffer holding exactly one byte returns 0
\* and consumes that byte: the buffer is empty afterwards, so no later read
\* can return it.
C16_ReadIntDropsLoneByte ==
    [][(connected /\ last'[1] = "read_int" /\ Len(read_buffer) = 1) =>
          /\ Returns(ret', "int", 0)
          /\ read_buffer' = << >>]_vars

C16_Witness ==
    /\ connected
    /\ last[1] = "read_int"
    /\ Returns(ret, "int", 0)
    /\ read_buffer = << >>
    /\ Len(appended) = 1
    /\ returned = appended

\* the first n bytes of s, all of s when it is shorter
Front(s, n) == SubSeq(s, 1, IF n < Len(s) THEN n ELSE Len(s))

\* C17: inject_data succeeds while disconnected and open() does not touch
\* the read buffer: after close(), the bytes injected before the next open()
\* are buffered while disconnected, are still buffered after open(), and are
\* the first bytes a read(n), n >= 0, made right after open() returns.
C17_InjectedWhileClosedSurvivesOpen ==
    /\ inj[1] = 1 =>
          /\ ~connected
          /\ read_buffer = inj[2]
          /\ last[1] = "inject_data" => ReturnsNone(ret)
    /\ inj[1] = 2 => connected /\ read_buffer = inj[2]
    /\ (inj[1] = 3 /\ last[2] >= 0) =>
          Returns(ret, "bytes", Front(inj[2], last[2]))

C17_Witness ==
    /\ inj[1] = 3
    /\ Len(inj[2]) = 3
    /\ last = <<"read", 2>>
    /\ ret[1] = "bytes"
    /\ Len(ret[2]) = 2
    /\ Len(read_buffer) = 1

\* a call of a typed accessor with an argument it accepts
ValidTypedCall(call) ==
    \/ call[1] \in {"read_byte", "read_int"}
    \/ call[1] = "send_byte" /\ SingleByte(call[2])
    \/ call[1] = "send_int" /\ call[2] >= 0 /\ call[2] <= 65535

\* C18: send_byte, send_int, read_byte and read_int called with valid
\* arguments while disconnected raise the not-connected error (read_byte and
\* read_int do not return 0) and leave the read buffer and the response
\* table unchanged.
C18_TypedAccessorsGated ==
    [][(~connected /\ ValidTypedCall(last')) =>
          /\ Raises(ret', "RuntimeError")
          /\ read_buffer' = read_buffer
          /\ response_map' = response_map]_vars

C18_Witness ==
    /\ ~connected
    /\ last[1] = "read_int"
    /\ Raises(ret, "RuntimeError")
    /\ Len(read_buffer) >= 2
    /\ response_map # << >>

====
